---- MODULE Spec2Model ----
(***************************************************************************)
(* aina-YTLoop: the loop controller (main.py), the OBS control client and  *)
(* its reconnect decorator (obs_handler.py), run against a model of the    *)
(* OBS WebSocket endpoint.                                                 *)
(*                                                                         *)
(* The program is one sequential thread.  Its position is a call stack of  *)
(* frames; the top frame is the one that executes.  The endpoint (OBS) and *)
(* the operator (Ctrl-C) act concurrently with it.                         *)
(***************************************************************************)
EXTENDS Integers, Sequences, FiniteSets, TLC

VARIABLES
    stack,           \* call stack: main, decorator wrapper, handler bodies
    ret,             \* value returned by the call that returned last
    exc,             \* exception in flight out of the call that ended last
    client,          \* OBSHandler.client: "None" or "ReqClient"
    linkOk,          \* the socket behind OBSHandler.client still works
    obsUp,           \* OBS is running and accepts WebSocket connections
    output,          \* OBS stream output: idle, starting, active, stopping
    settings,        \* settings['loop']: count, duration_hours, expiration
    clock,           \* hours since start_time (main.py:65)
    loop_iteration,  \* main.py:66
    term,            \* which way the loop ended (the log line written)
    calls            \* controller-level calls made since the last bound check

vars == <<stack, ret, exc, client, linkOk, obsUp, output, settings, clock,
          loop_iteration, term, calls>>

----------------------------------------------------------------------------
(* Bounds of the model and configuration values (config.yaml).             *)

MaxIter == 2          \* cap on loop_iteration (an unbounded run is cut here)
MaxClock == 1         \* cap on the hour clock
StartTimeout == 2     \* script.obs_stream_start_timeout_seconds
PollInterval == 1     \* obs_execution.stream_status_polling_interval_seconds
HoldDuration == 2     \* script.stream_actual_duration_seconds
MaxRetries == 2       \* obs_execution.set_stream_settings_max_retries
MaxPages == 3         \* pages of one listing of the platform
PageSize == 2         \* items on one page (maxResults)
MaxItems == 5         \* items of one listing

LoopCounts == {0, 2}             \* loop.count
LoopDurations == {0, 1}          \* loop.duration_hours
ExpirationStrings == {"", "bad", "T1"}  \* loop.expiration_datetime

(* Program constants.                                                      *)
StopWaitBound == 30   \* obs_handler.py:123
DatetimeMax == 9999   \* datetime.max, in hours since start
BackoffSeconds == 60  \* main.py:93, 101, 139, 145  time.sleep(60)
DelaySeconds == 10    \* main.py:148  time.sleep(10)
ExitSuccess == 0      \* the interpreter's status when main() returns

\* An exit call that reports success.
ConfigExitCodeZero == ExitSuccess

ConfigExitCode == 1   \* main.py:24, 27  exit(1)
UncaughtExitCode == 1 \* the interpreter's status when main() raises

----------------------------------------------------------------------------
(* Pure helpers.                                                           *)

\* A parse whose ValueError branch yields the epoch instead of datetime.max.
ParseExpirationEpoch(s) ==
    IF s = "" THEN DatetimeMax
    ELSE IF s = "T1" THEN 1
    ELSE IF s = "T2" THEN 2
    ELSE 0

\* main.py:55-63  the expiration string parsed; "" and unparseable strings
\* become datetime.max, "T<n>" is n hours after start.
ParseExpiration(s) ==
    IF s = "" THEN DatetimeMax
    ELSE IF s = "T1" THEN 1
    ELSE IF s = "T2" THEN 2
    ELSE DatetimeMax

\* The break conditions with the expiration test ahead of the duration test.
LoopEndExpirationFirst(cfg, iter, now) ==
    LET expiration_datetime == ParseExpiration(cfg.expiration_str) IN
    IF cfg.count # 0 /\ iter >= cfg.count THEN "count"
    ELSE IF expiration_datetime # DatetimeMax /\ now >= expiration_datetime
         THEN "expiration"
    ELSE IF cfg.duration # 0 /\ now >= cfg.duration THEN "duration"
    ELSE "none"

\* main.py:74-83  the three break conditions, in the order of the code
\* (expiration_datetime is computed once, at main.py:55-63).
LoopEnd(cfg, iter, now) ==
    LET expiration_datetime == ParseExpiration(cfg.expiration_str) IN
    IF cfg.count # 0 /\ iter >= cfg.count THEN "count"
    ELSE IF cfg.duration # 0 /\ now >= cfg.duration THEN "duration"
    ELSE IF expiration_datetime # DatetimeMax /\ now >= expiration_datetime
         THEN "expiration"
    ELSE "none"

\* Python truthiness of a returned value.
Truthy(v) == v \in {"True", "key", "old", "playlist", "service"}

\* An endpoint request through self.client: AttributeError when the client
\* is None, a connection-level error or another exception on a dead socket,
\* a reply or a request error on a live one.
Outcomes ==
    IF client = "None" THEN {"other"}
    ELSE IF linkOk THEN {"ok", "other"}
    ELSE {"conn", "other"}

\* GetStreamStatus.outputActive
StatusActive == output \in {"active", "stopping"}

\* Effect of StartStream / StopStream on the output.
StartCmd(o) == IF o = "idle" THEN "starting" ELSE o
StopCmd(o) == IF o \in {"active", "starting"} THEN "stopping" ELSE o

----------------------------------------------------------------------------
(* Stack plumbing.                                                         *)

Top == stack[Len(stack)]
Rest == SubSeq(stack, 1, Len(stack) - 1)
At(fn, pc) == Len(stack) > 0 /\ Top.fn = fn /\ Top.pc = pc
Goto(pc) == stack' = Rest \o <<[Top EXCEPT !.pc = pc]>>
Become(f) == stack' = Rest \o <<f>>
Call(retpc, f) == stack' = Rest \o <<[Top EXCEPT !.pc = retpc], f>>
Pop == stack' = Rest
CallWith(f, g) == stack' = Rest \o <<f, g>>

\* A wrapped operation returns normally; the decorator's frame below notes
\* the exception the operation caught itself (if any) in this execution.
ReturnCaught(e) ==
    LET w == stack[Len(stack) - 1] IN
    stack' = SubSeq(stack, 1, Len(stack) - 2) \o
             <<IF w.execs = 1 THEN [w EXCEPT !.caught1 = e]
               ELSE [w EXCEPT !.caught2 = e]>>

\* code: the exit status of the process, -1 while it runs.  slept: the
\* time.sleep calls (seconds) main made at the end of the last iteration
\* attempt, since the last bound check.  stream_key: the local of that
\* name, "key" for the key create returned in the current attempt and "old"
\* for one left from an earlier attempt (the platform makes a new stream,
\* hence a new key, at every create).  applied: the key passed to
\* set_stream_settings in the current attempt.  stops: how many times main
\* has called stop_stream.
MainFrame(pc) ==
    [fn |-> "main", pc |-> pc, t |-> 0, code |-> -1, slept |-> <<>>,
     stream_key |-> "None", applied |-> "none", stops |-> 0]
ConnectFrame == [fn |-> "connect", pc |-> "begin", launches |-> 0, tries |-> 0]
DisconnectFrame == [fn |-> "disconnect", pc |-> "begin", e |-> "none"]
WrapperFrame(op) ==
    [fn |-> "wrapper", op |-> op, pc |-> "enter", result |-> "None",
     conn0 |-> "none",
     execs |-> 0, discs |-> 0, conns |-> 0, reconn |-> "none",
     e1 |-> "none", e2 |-> "none", caught1 |-> "none", caught2 |-> "none"]
BodyFrame(op) ==
    IF op = "set_stream_settings"
    THEN [fn |-> op, pc |-> "status", result |-> "None", t |-> 0,
          attempt |-> 0, status |-> "none", e |-> "none",
          sawActive |-> FALSE, stops |-> 0, polls |-> 0, sets |-> 0]
    ELSE IF op = "wait_for_stream_to_start"
    THEN [fn |-> op, pc |-> "poll", result |-> "None", t |-> 0, polls |-> 0]
    ELSE [fn |-> op, pc |-> "call"]

EnvUnchanged == UNCHANGED <<linkOk, obsUp, output>>
LoopUnchanged == UNCHANGED <<settings, clock, loop_iteration, term, calls>>

----------------------------------------------------------------------------
(* Init: OBSHandler constructed (client None), settings loaded.            *)

Init ==
    /\ stack = <<MainFrame("load_config")>>
    /\ ret = "None"
    /\ exc = "none"
    /\ client = "None"
    /\ linkOk = FALSE
    /\ obsUp \in BOOLEAN
    /\ output = "idle"
    /\ \E c \in LoopCounts, d \in LoopDurations, e \in ExpirationStrings :
          settings = [count |-> c, duration |-> d, expiration_str |-> e]
    /\ clock = 0
    /\ loop_iteration = 0
    /\ term = "none"
    /\ calls = <<>>

----------------------------------------------------------------------------
(* main.py: the loop controller.                                           *)

InLoop ==
    stack[1].pc \notin {"load_config", "auth", "aborted", "init", "init_ret",
                         "exit", "finally", "done"}

\* main.py:17-27  what reading config.yaml does
ConfigOutcomes == {"ok", "missing", "unparseable"}

\* main.py:34, 17-27  load_config(): FileNotFoundError and yaml.YAMLError
\* are logged and the process exits with exit(1).
MainLoadConfig ==
    /\ At("main", "load_config")
    /\ \E o \in ConfigOutcomes :
         IF o = "ok"
         THEN Goto("auth") /\ term' = term
         ELSE /\ Become([Top EXCEPT !.pc = "aborted", !.code = ConfigExitCode])
              /\ term' = o
    /\ UNCHANGED <<ret, exc, client, settings, clock, loop_iteration, calls>>
    /\ EnvUnchanged

\* youtube_handler.py:14-41  get_authenticated_service returns the service
\* object that build() made, or raises (no credentials file, a refused or
\* failed OAuth flow, a failed refresh); it has no handler of its own.
AuthOutcomes == {"service", "raise"}

\* main.py:39-43  youtube = get_authenticated_service(settings); a falsy
\* result returns from main; an exception is caught nowhere and ends the
\* interpreter with the status of an uncaught exception.
MainAuth ==
    /\ At("main", "auth")
    /\ \E o \in AuthOutcomes :
         IF o = "raise"
         THEN /\ Become([Top EXCEPT !.pc = "aborted",
                                    !.code = UncaughtExitCode])
              /\ term' = "auth"
         ELSE IF Truthy(o)
         THEN Goto("init") /\ term' = term
         ELSE Goto("exit") /\ term' = "auth"
    /\ UNCHANGED <<ret, exc, client, settings, clock, loop_iteration, calls>>
    /\ EnvUnchanged

\* main.py:42, 49, 156, 158-159  main() returns and the script ends: exit
\* status 0.
MainReturn ==
    /\ Len(stack) = 1 /\ Top.fn = "main" /\ Top.pc \in {"exit", "done"}
    /\ Top.code = -1
    /\ Become([Top EXCEPT !.code = ExitSuccess])
    /\ UNCHANGED <<ret, exc, client>> /\ EnvUnchanged /\ LoopUnchanged

\* main.py:46-47  obs_handler = OBSHandler(settings); obs_handler.connect()
MainInitConnect ==
    /\ At("main", "init")
    /\ Call("init_ret", ConnectFrame)
    /\ UNCHANGED <<ret, exc, client>> /\ EnvUnchanged /\ LoopUnchanged

\* main.py:47-67  the first connection failed: return; otherwise enter the
\* try block with start_time = now and loop_iteration = 0.
MainInitRet ==
    /\ At("main", "init_ret")
    /\ IF Truthy(ret)
       THEN Goto("check") /\ term' = term
       ELSE Goto("exit") /\ term' = "startup"
    /\ UNCHANGED <<exc, client, settings, clock, loop_iteration, calls>>
    /\ EnvUnchanged
    /\ ret' = "None"

\* main.py:70-85  the bound checks at the top of an iteration.
LoopCheck ==
    /\ At("main", "check")
    /\ LET r == LoopEnd(settings, loop_iteration, clock) IN
         IF r # "none"
         THEN Become([Top EXCEPT !.pc = "finally", !.slept = <<>>,
                                 !.applied = "none"])
              /\ term' = r
         ELSE Become([Top EXCEPT !.pc = "create", !.slept = <<>>,
                                 !.applied = "none",
                                 !.stream_key = IF @ = "key" THEN "old"
                                                ELSE @])
              /\ term' = term
    /\ calls' = <<>>
    /\ UNCHANGED <<ret, exc, client, settings, clock, loop_iteration>>
    /\ EnvUnchanged

\* youtube_handler.py:171-296 as main.py:90-95 sees it: a stream key, None,
\* or an exception raised outside the function's own try blocks.
CreateOutcomes == {"key", "None", "raise"}

\* main.py:90  stream_key = youtube_handler.create_youtube_broadcast(...)
MainCreate ==
    /\ At("main", "create")
    /\ \E o \in CreateOutcomes :
         IF o = "raise"
         THEN exc' = "other" /\ ret' = ret
         ELSE ret' = o /\ exc' = exc
    /\ Goto("create_ret")
    /\ calls' = Append(calls, "create")
    /\ UNCHANGED <<client, settings, clock, loop_iteration, term>>
    /\ EnvUnchanged

\* An assignment that keeps the previous key when create returned none.
KeyAfterCreateKept(old, r) == IF r = "None" THEN old ELSE r

\* main.py:90  stream_key = create_youtube_broadcast(...)
KeyAfterCreate(old, r) == r

\* main.py:90-95, 142  an exception: the handler (stream_key is not
\* assigned); no key: soft retry; a key: go on.
MainCreateRet ==
    /\ At("main", "create_ret")
    /\ IF exc # "none"
       THEN Goto("except")
       ELSE LET k == KeyAfterCreate(Top.stream_key, ret) IN
            Become([Top EXCEPT !.stream_key = k,
                               !.pc = IF Truthy(k) THEN "apply"
                                      ELSE "backoff_create"])
    /\ exc' = "none"
    /\ UNCHANGED <<client>> /\ EnvUnchanged /\ LoopUnchanged
    /\ ret' = "None"

\* main.py:99  obs_handler.set_stream_settings(stream_key)
MainApply ==
    /\ At("main", "apply")
    /\ CallWith([Top EXCEPT !.pc = "apply_ret", !.applied = Top.stream_key],
                WrapperFrame("set_stream_settings"))
    /\ calls' = Append(calls, "apply")
    /\ UNCHANGED <<ret, exc, client, settings, clock, loop_iteration, term>>
    /\ EnvUnchanged

\* main.py:99-102
MainApplyRet ==
    /\ At("main", "apply_ret")
    /\ Goto(IF Truthy(ret) THEN "start" ELSE "backoff_apply")
    /\ UNCHANGED <<exc, client>> /\ EnvUnchanged /\ LoopUnchanged
    /\ ret' = "None"

\* main.py:106  obs_handler.start_stream(); the result is not looked at.
MainStart ==
    /\ At("main", "start")
    /\ Call("wait", WrapperFrame("start_stream"))
    /\ calls' = Append(calls, "start")
    /\ UNCHANGED <<ret, exc, client, settings, clock, loop_iteration, term>>
    /\ EnvUnchanged

\* main.py:109  obs_handler.wait_for_stream_to_start(timeout=...)
MainWait ==
    /\ At("main", "wait")
    /\ Call("wait_ret", WrapperFrame("wait_for_stream_to_start"))
    /\ calls' = Append(calls, "wait")
    /\ UNCHANGED <<ret, exc, client, settings, clock, loop_iteration, term>>
    /\ EnvUnchanged

\* The two branches of the activation wait exchanged.
WaitBranchInverted(v) == IF Truthy(v) THEN "backoff_wait" ELSE "hold"

\* main.py:109, 137  the branch taken on the value of the activation wait
WaitBranch(v) == IF Truthy(v) THEN "hold" ELSE "backoff_wait"

\* main.py:109-110, 137-140
MainWaitRet ==
    /\ At("main", "wait_ret")
    /\ Goto(WaitBranch(ret))
    /\ calls' = (IF Truthy(ret) THEN Append(calls, "active") ELSE calls)
    /\ UNCHANGED <<exc, client, settings, clock, loop_iteration, term>>
    /\ EnvUnchanged
    /\ ret' = "None"

\* main.py:112-122  format the duration, take stream_start_time; a settings
\* lookup that fails raises into the handler at main.py:142.
MainHoldEnter ==
    /\ At("main", "hold")
    /\ \/ Become([Top EXCEPT !.pc = "hold_loop", !.t = 0])
       \/ Goto("except")
    /\ UNCHANGED <<ret, exc, client>> /\ EnvUnchanged /\ LoopUnchanged

\* main.py:123-132  the hold loop: one round ends in the polling sleep; the
\* lookups and the sleep call of a round may raise.
MainHoldLoop ==
    /\ At("main", "hold_loop")
    /\ IF Top.t < HoldDuration
       THEN Goto("hold_sleep") \/ Goto("except")
       ELSE Goto("stop")
    /\ UNCHANGED <<ret, exc, client>> /\ EnvUnchanged /\ LoopUnchanged

\* main.py:132  time.sleep(polling interval)
MainHoldSleep ==
    /\ At("main", "hold_sleep")
    /\ Become([Top EXCEPT !.pc = "hold_loop", !.t = @ + PollInterval])
    /\ UNCHANGED <<ret, exc, client>> /\ EnvUnchanged /\ LoopUnchanged

\* main.py:134-136  obs_handler.stop_stream()
MainStop ==
    /\ At("main", "stop")
    /\ CallWith([Top EXCEPT !.pc = "delay", !.stops = @ + 1],
                WrapperFrame("stop_stream"))
    /\ calls' = Append(calls, "stop")
    /\ UNCHANGED <<ret, exc, client, settings, clock, loop_iteration, term>>
    /\ EnvUnchanged

BackoffPcs == {"backoff_create", "backoff_apply", "backoff_wait"}

\* A soft retry that falls through to the end of the loop body.
AfterBackoffFallThrough == "delay"

\* main.py:94, 102, 140  continue: back to the top of the while loop
AfterBackoff == "check"

\* main.py:93-94, 101-102, 139-140  time.sleep(60); continue
MainBackoff ==
    /\ Len(stack) = 1 /\ Top.pc \in BackoffPcs
    /\ Become([Top EXCEPT !.pc = AfterBackoff,
                          !.slept = Append(@, BackoffSeconds)])
    /\ UNCHANGED <<ret, exc, client>> /\ EnvUnchanged /\ LoopUnchanged

\* main.py:142-145  except Exception: log, time.sleep(60)
MainExcept ==
    /\ At("main", "except")
    /\ Become([Top EXCEPT !.pc = "delay",
                          !.slept = Append(@, BackoffSeconds)])
    /\ calls' = Append(calls, "except")
    /\ UNCHANGED <<ret, exc, client, settings, clock, loop_iteration, term>>
    /\ EnvUnchanged

\* An end of iteration that leaves the counter alone.
IterationAfterKept(i) == i

\* main.py:149  loop_iteration += 1
IterationAfter(i) == i + 1

\* main.py:147-149  time.sleep(10); loop_iteration += 1
MainDelay ==
    /\ At("main", "delay")
    /\ loop_iteration < MaxIter
    /\ loop_iteration' = IterationAfter(loop_iteration)
    /\ Become([Top EXCEPT !.pc = "check",
                          !.slept = Append(@, DelaySeconds)])
    /\ UNCHANGED <<ret, exc, client, settings, clock, term, calls>>
    /\ EnvUnchanged

\* main.py:151-152  KeyboardInterrupt anywhere inside the try block unwinds
\* every frame (no handler below main catches it; the finally clause of
\* disconnect, obs_handler.py:105-106, runs on the way).
Interrupt ==
    /\ InLoop
    /\ stack' = <<[MainFrame("finally")
                     EXCEPT !.stream_key = stack[1].stream_key,
                            !.applied = stack[1].applied,
                            !.stops = stack[1].stops]>>
    /\ term' = "interrupt"
    /\ exc' = "none"
    /\ client' = (IF \E i \in 1..Len(stack) :
                        stack[i].fn = "disconnect" /\ stack[i].pc = "closing"
                  THEN "None" ELSE client)
    /\ linkOk' = (linkOk /\ client' # "None")
    /\ UNCHANGED <<ret, obsUp, output, settings, clock, loop_iteration, calls>>

\* main.py:153-155  finally: obs_handler.disconnect()
MainFinally ==
    /\ At("main", "finally")
    /\ Call("done", DisconnectFrame)
    /\ UNCHANGED <<ret, exc, client>> /\ EnvUnchanged /\ LoopUnchanged

\* Time passes while the thread sleeps: the hour clock may advance.
SleepPcs == BackoffPcs \cup {"except", "delay", "hold_sleep", "poll_sleep",
                             "retry_sleep", "sleep", "launch_wait"}

Tick ==
    /\ Top.pc \in SleepPcs
    /\ clock < MaxClock
    /\ clock' = clock + 1
    /\ UNCHANGED <<stack, ret, exc, client, linkOk, obsUp, output, settings,
                   loop_iteration, term, calls>>

----------------------------------------------------------------------------
(* obs_handler.py: connect and disconnect.                                 *)

\* A connect that never takes the client for connected.
AlreadyConnectedNever == FALSE

\* obs_handler.py:58  if self.client
AlreadyConnected == client # "None"

\* obs_handler.py:58-60  already connected: return True
ConnectBegin ==
    /\ At("connect", "begin")
    /\ IF AlreadyConnected
       THEN Pop /\ ret' = "True"
       ELSE Goto("try1") /\ ret' = ret
    /\ UNCHANGED <<exc, client>> /\ EnvUnchanged /\ LoopUnchanged

\* What obs.ReqClient(...) does: a connection when OBS listens (or another
\* failure: timeout, authentication), ConnectionRefusedError when not.
ReqClientOutcomes == IF obsUp THEN {"ok", "other"} ELSE {"refused"}

\* obs_handler.py:62-73, 90-93  the first connection attempt
ConnectTry1 ==
    /\ At("connect", "try1")
    /\ \E o \in ReqClientOutcomes :
         \/ /\ o = "ok"
            /\ client' = "ReqClient" /\ linkOk' = TRUE
            /\ Pop /\ ret' = "True"
         \/ /\ o = "refused"
            /\ Become([Top EXCEPT !.pc = "launch", !.tries = @ + 1])
            /\ UNCHANGED <<client, linkOk, ret>>
         \/ /\ o = "other"
            /\ client' = "None" /\ linkOk' = FALSE
            /\ Pop /\ ret' = "False"
    /\ UNCHANGED <<exc, obsUp, output>> /\ LoopUnchanged

\* obs_handler.py:74-77, 86-89  subprocess.Popen(['open', app_path]); when
\* Popen raises, the inner handler returns False.
ConnectLaunch ==
    /\ At("connect", "launch")
    /\ \/ /\ Become([Top EXCEPT !.pc = "launch_wait", !.launches = @ + 1])
          /\ UNCHANGED <<client, linkOk, ret>>
       \/ /\ client' = "None" /\ linkOk' = FALSE
          /\ Pop /\ ret' = "False"
    /\ UNCHANGED <<exc, obsUp, output>> /\ LoopUnchanged

\* obs_handler.py:77  time.sleep(launch_wait_seconds)
ConnectLaunchWait ==
    /\ At("connect", "launch_wait")
    /\ Goto("try2")
    /\ UNCHANGED <<ret, exc, client>> /\ EnvUnchanged /\ LoopUnchanged

\* obs_handler.py:78-89  the second attempt; any exception returns False.
ConnectTry2 ==
    /\ At("connect", "try2")
    /\ \E o \in ReqClientOutcomes :
         \/ /\ o = "ok"
            /\ client' = "ReqClient" /\ linkOk' = TRUE
            /\ Pop /\ ret' = "True"
         \/ /\ o # "ok"
            /\ client' = "None" /\ linkOk' = FALSE
            /\ Pop /\ ret' = "False"
    /\ UNCHANGED <<exc, obsUp, output>> /\ LoopUnchanged

\* obs_handler.py:99-101  if self.client: try: self.client.disconnect()
DisconnectBegin ==
    /\ At("disconnect", "begin")
    /\ IF client # "None"
       THEN Goto("closing") /\ ret' = ret
       ELSE Pop /\ ret' = "None"
    /\ UNCHANGED <<exc, client>> /\ EnvUnchanged /\ LoopUnchanged

\* A disconnect without the finally clause.
ClientAfterDisconnectKept(o) == client

\* A disconnect that clears the client only when the endpoint call returned.
ClientAfterDisconnectUnlessRaised(o) == IF o = "raise" THEN client ELSE "None"

\* obs_handler.py:105-106  finally: self.client = None
ClientAfterDisconnect(o) == "None"

\* obs_handler.py:101-106  self.client.disconnect() returns or raises (the
\* exception is logged); finally: self.client = None
DisconnectClose ==
    /\ At("disconnect", "closing")
    /\ \E o \in {"ok", "raise"} :
         /\ client' = ClientAfterDisconnect(o)
         /\ Become([Top EXCEPT !.pc = "return", !.e = o])
    /\ linkOk' = (linkOk /\ client' # "None")
    /\ UNCHANGED <<ret, exc, obsUp, output>> /\ LoopUnchanged

\* obs_handler.py:106  the end of disconnect: return None
DisconnectReturn ==
    /\ At("disconnect", "return")
    /\ Pop /\ ret' = "None"
    /\ UNCHANGED <<exc, client>> /\ EnvUnchanged /\ LoopUnchanged

----------------------------------------------------------------------------
(* obs_handler.py: the ensure_connection decorator.                        *)

\* obs_handler.py:14-16  if not self.client: self.connect()
WrapEnter ==
    /\ At("wrapper", "enter")
    /\ IF client = "None"
       THEN Call("conn0_ret", ConnectFrame)
       ELSE Goto("exec1")
    /\ UNCHANGED <<ret, exc, client>> /\ EnvUnchanged /\ LoopUnchanged

\* obs_handler.py:16-18  connect failed: return None without executing
WrapConn0Ret ==
    /\ At("wrapper", "conn0_ret")
    /\ IF Truthy(ret)
       THEN Goto("exec1")
       ELSE Become([Top EXCEPT !.pc = "return", !.result = "None",
                               !.conn0 = "failed"])
    /\ UNCHANGED <<exc, client>> /\ EnvUnchanged /\ LoopUnchanged
    /\ ret' = "None"

\* obs_handler.py:21  return func(self, *args, **kwargs)
WrapExec1 ==
    /\ At("wrapper", "exec1")
    /\ CallWith([Top EXCEPT !.pc = "after1", !.execs = @ + 1],
                BodyFrame(Top.op))
    /\ UNCHANGED <<ret, exc, client>> /\ EnvUnchanged /\ LoopUnchanged

\* obs_handler.py:22, 35  which handler takes an exception of the first
\* execution: the reconnect handler takes ConnectionRefusedError and
\* BrokenPipeError, the generic one everything else.
FirstHandler(e) == IF e = "conn" THEN "disc" ELSE "return"

\* obs_handler.py:21-23, 35-37  the first execution returned or raised
WrapAfter1 ==
    /\ At("wrapper", "after1")
    /\ IF exc = "none"
       THEN Become([Top EXCEPT !.pc = "return", !.result = ret, !.e1 = "ok"])
       ELSE Become([Top EXCEPT !.pc = FirstHandler(exc), !.result = "None",
                               !.e1 = exc])
    /\ exc' = "none"
    /\ UNCHANGED <<ret, client>> /\ EnvUnchanged /\ LoopUnchanged

\* obs_handler.py:24  self.disconnect()
WrapDisc ==
    /\ At("wrapper", "disc")
    /\ CallWith([Top EXCEPT !.pc = "reconn", !.discs = @ + 1], DisconnectFrame)
    /\ UNCHANGED <<ret, exc, client>> /\ EnvUnchanged /\ LoopUnchanged

\* obs_handler.py:25  if self.connect():
WrapReconn ==
    /\ At("wrapper", "reconn")
    /\ CallWith([Top EXCEPT !.pc = "reconn_ret", !.conns = @ + 1], ConnectFrame)
    /\ UNCHANGED <<ret, exc, client>> /\ EnvUnchanged /\ LoopUnchanged

\* obs_handler.py:25-26, 32-34  reconnected: retry; otherwise return None
WrapReconnRet ==
    /\ At("wrapper", "reconn_ret")
    /\ IF Truthy(ret)
       THEN Goto("exec2")
       ELSE Become([Top EXCEPT !.pc = "return", !.result = "None",
                               !.reconn = "failed"])
    /\ UNCHANGED <<exc, client>> /\ EnvUnchanged /\ LoopUnchanged
    /\ ret' = "None"

\* obs_handler.py:28  return func(self, *args, **kwargs)  (the retry)
WrapExec2 ==
    /\ At("wrapper", "exec2")
    /\ CallWith([Top EXCEPT !.pc = "after2", !.execs = @ + 1],
                BodyFrame(Top.op))
    /\ UNCHANGED <<ret, exc, client>> /\ EnvUnchanged /\ LoopUnchanged

\* A retry whose connection-level error starts another reconnect cycle.
SecondHandlerReconnect(e) == IF e = "conn" THEN "disc" ELSE "return"

\* obs_handler.py:28-31  where the wrapper goes after the retry raised: the
\* handler logs and returns None, whatever the exception.
SecondHandler(e) == "return"

\* obs_handler.py:28-31  the retry returned or raised
WrapAfter2 ==
    /\ At("wrapper", "after2")
    /\ IF exc = "none"
       THEN Become([Top EXCEPT !.pc = "return", !.result = ret, !.e2 = "ok"])
       ELSE Become([Top EXCEPT !.pc = SecondHandler(exc), !.result = "None",
                               !.e2 = exc])
    /\ exc' = "none"
    /\ UNCHANGED <<ret, client>> /\ EnvUnchanged /\ LoopUnchanged

\* The wrapper returns to its caller.
WrapReturn ==
    /\ At("wrapper", "return")
    /\ Pop /\ ret' = Top.result
    /\ UNCHANGED <<exc, client>> /\ EnvUnchanged /\ LoopUnchanged

----------------------------------------------------------------------------
(* obs_handler.py: the wrapped operations.                                 *)

\* obs_handler.py:163-168  self.client.start_stream()
StartStream ==
    /\ At("start_stream", "call")
    /\ \E o \in Outcomes :
         IF o = "ok"
         THEN /\ output' = StartCmd(output)
              /\ ret' = "None" /\ exc' = exc
         ELSE /\ output' = output
              /\ exc' = o /\ ret' = ret
    /\ Pop
    /\ UNCHANGED <<client, linkOk, obsUp>> /\ LoopUnchanged

\* obs_handler.py:171-176  self.client.stop_stream()
StopStream ==
    /\ At("stop_stream", "call")
    /\ \E o \in Outcomes :
         IF o = "ok"
         THEN /\ output' = StopCmd(output)
              /\ ret' = "None" /\ exc' = exc
         ELSE /\ output' = output
              /\ exc' = o /\ ret' = ret
    /\ Pop
    /\ UNCHANGED <<client, linkOk, obsUp>> /\ LoopUnchanged

\* A timeout test that still polls when the timeout has just elapsed.
WithinTimeoutInclusive(t) == t <= StartTimeout

\* obs_handler.py:184  while time.time() - start_time < timeout
WithinTimeout(t) == t < StartTimeout

\* obs_handler.py:185-197  one round of the activation wait: past the
\* timeout return False; else poll the status: active returns True, an
\* exception is re-raised to the decorator, inactive goes to sleep.
WaitPoll ==
    /\ At("wait_for_stream_to_start", "poll")
    /\ IF WithinTimeout(Top.t)
       THEN \E o \in Outcomes :
              IF o # "ok"
              THEN Pop /\ exc' = o /\ ret' = ret
              ELSE IF StatusActive
              THEN /\ Become([Top EXCEPT !.pc = "return", !.result = "True",
                                         !.polls = @ + 1])
                   /\ UNCHANGED <<exc, ret>>
              ELSE /\ Become([Top EXCEPT !.pc = "sleep", !.polls = @ + 1])
                   /\ UNCHANGED <<exc, ret>>
       ELSE /\ Become([Top EXCEPT !.pc = "return", !.result = "False"])
            /\ UNCHANGED <<exc, ret>>
    /\ UNCHANGED client /\ EnvUnchanged /\ LoopUnchanged

\* obs_handler.py:195  time.sleep(polling interval)
WaitSleep ==
    /\ At("wait_for_stream_to_start", "sleep")
    /\ Become([Top EXCEPT !.pc = "poll", !.t = @ + PollInterval])
    /\ UNCHANGED <<ret, exc, client>> /\ EnvUnchanged /\ LoopUnchanged

\* obs_handler.py:190, 197  return
WaitReturn ==
    /\ At("wait_for_stream_to_start", "return")
    /\ Pop /\ ret' = Top.result
    /\ UNCHANGED <<exc, client>> /\ EnvUnchanged /\ LoopUnchanged

\* obs_handler.py:114-117, 133-135  status = self.client.get_stream_status();
\* any exception inside the first try block returns False.
SssStatus ==
    /\ At("set_stream_settings", "status")
    /\ \E o \in Outcomes :
         IF o # "ok"
         THEN Become([Top EXCEPT !.pc = "return", !.result = "False",
                                 !.e = o])
         ELSE IF StatusActive
         THEN Become([Top EXCEPT !.pc = "force_stop", !.status = "active",
                                 !.sawActive = TRUE])
         ELSE Become([Top EXCEPT !.pc = "attempt", !.status = "inactive"])
    /\ UNCHANGED <<ret, exc, client>> /\ EnvUnchanged /\ LoopUnchanged

\* obs_handler.py:118-122  self.stop_stream() (through the decorator), then
\* stop_wait_start_time = time.time()
SssForceStop ==
    /\ At("set_stream_settings", "force_stop")
    /\ CallWith([Top EXCEPT !.pc = "poll", !.stops = @ + 1, !.t = 0],
                WrapperFrame("stop_stream"))
    /\ UNCHANGED <<ret, exc, client>> /\ EnvUnchanged /\ LoopUnchanged

\* A stop wait that goes on to the settings loop when the bound is hit.
StopWaitExpiredProceed(f) == [f EXCEPT !.pc = "attempt"]

\* obs_handler.py:129-131  the while-else of the stop wait: log, return False
StopWaitExpired(f) == [f EXCEPT !.pc = "return", !.result = "False"]

\* obs_handler.py:123-135  one round of the stop wait: past the bound the
\* while-else returns False; else poll: inactive breaks out to the settings
\* loop, active sleeps, an exception returns False.
SssPoll ==
    /\ At("set_stream_settings", "poll")
    /\ IF Top.t < StopWaitBound
       THEN \E o \in Outcomes :
              IF o # "ok"
              THEN Become([Top EXCEPT !.pc = "return", !.result = "False",
                                      !.e = o])
              ELSE IF StatusActive
              THEN Become([Top EXCEPT !.pc = "poll_sleep",
                                      !.status = "active", !.polls = @ + 1])
              ELSE Become([Top EXCEPT !.pc = "attempt",
                                      !.status = "inactive", !.polls = @ + 1])
       ELSE Become(StopWaitExpired(Top))
    /\ UNCHANGED <<ret, exc, client>> /\ EnvUnchanged /\ LoopUnchanged

\* obs_handler.py:128  time.sleep(1)
SssPollSleep ==
    /\ At("set_stream_settings", "poll_sleep")
    /\ Become([Top EXCEPT !.pc = "poll", !.t = @ + 1])
    /\ UNCHANGED <<ret, exc, client>> /\ EnvUnchanged /\ LoopUnchanged

\* A retry test that also sleeps after the last attempt.
RetryAgainAlways(attempt) == TRUE

\* obs_handler.py:154  if attempt < max_retries - 1: sleep and go round again
RetryAgain(attempt) == attempt < MaxRetries - 1

\* obs_handler.py:138-160  one attempt of the settings loop:
\* set_stream_service_settings succeeds (return True) or raises (sleep and
\* retry, or return False after the last attempt).
SssAttempt ==
    /\ At("set_stream_settings", "attempt")
    /\ IF Top.attempt < MaxRetries
       THEN \E o \in Outcomes :
              IF o = "ok"
              THEN Become([Top EXCEPT !.pc = "return", !.result = "True",
                                      !.sets = @ + 1])
              ELSE IF RetryAgain(Top.attempt)
              THEN Become([Top EXCEPT !.pc = "retry_sleep", !.e = o,
                                      !.sets = @ + 1])
              ELSE Become([Top EXCEPT !.pc = "return", !.result = "False",
                                      !.e = o, !.sets = @ + 1])
       ELSE Become([Top EXCEPT !.pc = "return", !.result = "False"])
    /\ UNCHANGED <<ret, exc, client>> /\ EnvUnchanged /\ LoopUnchanged

\* obs_handler.py:156  time.sleep(retry delay), then the next attempt
SssRetrySleep ==
    /\ At("set_stream_settings", "retry_sleep")
    /\ Become([Top EXCEPT !.pc = "attempt", !.attempt = @ + 1])
    /\ UNCHANGED <<ret, exc, client>> /\ EnvUnchanged /\ LoopUnchanged

\* obs_handler.py:131, 135, 150, 159, 160  return
SssReturn ==
    /\ At("set_stream_settings", "return")
    /\ ReturnCaught(Top.e)
    /\ ret' = Top.result
    /\ UNCHANGED <<exc, client>> /\ EnvUnchanged /\ LoopUnchanged

----------------------------------------------------------------------------
(* The endpoint: OBS and the connection to it.                             *)

ProgUnchanged == UNCHANGED <<stack, ret, exc, client>>

\* OBS exits or crashes: the socket dies and the output ends.
ObsCrash ==
    /\ obsUp
    /\ obsUp' = FALSE /\ linkOk' = FALSE /\ output' = "idle"
    /\ ProgUnchanged /\ LoopUnchanged

\* OBS comes up (launched by connect, or by the operator).
ObsStart ==
    /\ ~obsUp
    /\ obsUp' = TRUE
    /\ UNCHANGED <<linkOk, output>> /\ ProgUnchanged /\ LoopUnchanged

\* The WebSocket connection drops while OBS keeps running.
LinkDrop ==
    /\ linkOk
    /\ linkOk' = FALSE
    /\ UNCHANGED <<obsUp, output>> /\ ProgUnchanged /\ LoopUnchanged

\* A start command takes effect, or fails.
OutputStarted ==
    /\ output = "starting"
    /\ output' \in {"active", "idle"}
    /\ UNCHANGED <<obsUp, linkOk>> /\ ProgUnchanged /\ LoopUnchanged

\* A stop command takes effect.
OutputStopped ==
    /\ output = "stopping"
    /\ output' = "idle"
    /\ UNCHANGED <<obsUp, linkOk>> /\ ProgUnchanged /\ LoopUnchanged

----------------------------------------------------------------------------

MainNext ==
    \/ MainLoadConfig \/ MainAuth \/ MainReturn
    \/ MainInitConnect \/ MainInitRet \/ LoopCheck \/ MainCreate
    \/ MainCreateRet
    \/ MainApply \/ MainApplyRet \/ MainStart \/ MainWait \/ MainWaitRet
    \/ MainHoldEnter \/ MainHoldLoop \/ MainHoldSleep \/ MainStop
    \/ MainBackoff \/ MainExcept \/ MainDelay \/ MainFinally

ClientNext ==
    \/ ConnectBegin \/ ConnectTry1 \/ ConnectLaunch \/ ConnectLaunchWait
    \/ ConnectTry2 \/ DisconnectBegin \/ DisconnectClose \/ DisconnectReturn
    \/ WrapEnter \/ WrapConn0Ret \/ WrapExec1 \/ WrapAfter1 \/ WrapDisc
    \/ WrapReconn \/ WrapReconnRet \/ WrapExec2 \/ WrapAfter2 \/ WrapReturn
    \/ StartStream \/ StopStream \/ WaitPoll \/ WaitSleep \/ WaitReturn
    \/ SssStatus \/ SssForceStop \/ SssPoll \/ SssPollSleep \/ SssAttempt
    \/ SssRetrySleep \/ SssReturn

EnvNext ==
    \/ ObsCrash \/ ObsStart \/ LinkDrop \/ OutputStarted \/ OutputStopped

Next == MainNext \/ ClientNext \/ EnvNext \/ Interrupt \/ Tick

Spec == Init /\ [][Next]_vars

\* The process is a single thread that keeps running: whenever main or a
\* handler method has a step to take, it is taken (a sleep ends, a request
\* returns or raises).  The platform does not refuse to provision forever:
\* create_youtube_broadcast, called again and again, returns a key at some
\* call.  Nothing is assumed of the endpoint or the operator.
FairSpec ==
    /\ Spec
    /\ WF_vars(MainNext \/ ClientNext)
    /\ SF_vars(MainCreate /\ ret' = "key")

\* main.py:51  the configurations with loop.count set (N > 0).
CountInit == Init /\ settings.count > 0

CountSpec ==
    /\ CountInit /\ [][Next]_vars
    /\ WF_vars(MainNext \/ ClientNext)

----------------------------------------------------------------------------
(* youtube_handler.py: the cleanup of old broadcasts and streams.  The     *)
(* platform's listing is a sequence of pages (the number of items on each); *)
(* the items are numbered in listing order.                                *)

\* An API call (request.execute()) returns or raises.
ApiOutcomes == {"ok", "raise"}

RECURSIVE SumTo(_, _)
SumTo(pages, k) == IF k = 0 THEN 0 ELSE pages[k] + SumTo(pages, k - 1)

PageShapes ==
    {p \in UNION {[1..n -> 0..PageSize] : n \in 1..MaxPages} :
       SumTo(p, Len(p)) <= MaxItems}

\* The ids on page k of a listing.
PageItems(pages, k) ==
    [j \in 1..pages[k] |-> SumTo(pages, k - 1) + j]

\* The page a list call with pageToken = tok receives: token 0 (None) asks
\* for the first page, and the response names the next page while one is left.
ListPage(pages, tok) ==
    [items |-> PageItems(pages, tok + 1),
     nextPageToken |-> IF tok + 1 < Len(pages) THEN tok + 1 ELSE 0]

DeleteFrame(fn, pages) ==
    [fn |-> fn, pc |-> "list", pages |-> pages, next_page_token |-> 0,
     ids |-> <<>>, i |-> 1,
     lists |-> 0, deleted |-> <<>>, skipped |-> {}, aborted |-> "none"]

\* A listing loop that stops after the first page.
FollowTokenNever(tok) == FALSE

\* youtube_handler.py:110-112, 147-149  if not next_page_token: break
FollowToken(tok) == tok # 0

\* youtube_handler.py:98-112, 135-149  one round of the listing loop, as
\* the frame it leaves: list one page, append its ids, follow the token or
\* leave the loop; when the list call raises, the function's outer handler
\* (125-126, 168-169) logs and the function ends.
ListStep(f, o) ==
    IF o = "ok"
    THEN LET r == ListPage(f.pages, f.next_page_token) IN
         [f EXCEPT !.ids = @ \o r.items,
                   !.lists = @ + 1,
                   !.next_page_token = r.nextPageToken,
                   !.pc = IF FollowToken(r.nextPageToken)
                          THEN "list" ELSE "check"]
    ELSE [f EXCEPT !.pc = "return", !.aborted = "list", !.lists = @ + 1]

\* youtube_handler.py:114-116, 151-153  nothing listed: return
CheckStep(f) ==
    [f EXCEPT !.pc = IF f.ids = <<>> THEN "return" ELSE "delete"]

\* youtube_handler.py:98-112  the listing loop of the broadcasts
BroadcastsList ==
    /\ At("delete_all_scheduled_broadcasts", "list")
    /\ \E o \in ApiOutcomes : Become(ListStep(Top, o))
    /\ UNCHANGED <<ret, exc, client>> /\ EnvUnchanged /\ LoopUnchanged

\* youtube_handler.py:114-116  if not all_broadcast_ids: return
BroadcastsCheck ==
    /\ At("delete_all_scheduled_broadcasts", "check")
    /\ Become(CheckStep(Top))
    /\ UNCHANGED <<ret, exc, client>> /\ EnvUnchanged /\ LoopUnchanged

\* youtube_handler.py:116, 123-126  the function ends, returning None
BroadcastsReturn ==
    /\ At("delete_all_scheduled_broadcasts", "return")
    /\ Pop /\ ret' = "None"
    /\ UNCHANGED <<exc, client>> /\ EnvUnchanged /\ LoopUnchanged

\* youtube_handler.py:135-149  the listing loop of the streams
StreamsList ==
    /\ At("delete_all_live_streams", "list")
    /\ \E o \in ApiOutcomes : Become(ListStep(Top, o))
    /\ UNCHANGED <<ret, exc, client>> /\ EnvUnchanged /\ LoopUnchanged

\* youtube_handler.py:151-153  if not all_stream_ids: return
StreamsCheck ==
    /\ At("delete_all_live_streams", "check")
    /\ Become(CheckStep(Top))
    /\ UNCHANGED <<ret, exc, client>> /\ EnvUnchanged /\ LoopUnchanged

\* youtube_handler.py:153, 166-169  the function ends, returning None
StreamsReturn ==
    /\ At("delete_all_live_streams", "return")
    /\ Pop /\ ret' = "None"
    /\ UNCHANGED <<exc, client>> /\ EnvUnchanged /\ LoopUnchanged

\* What a delete call does: it succeeds, raises HttpError 403
\* liveStreamDeletionNotAllowed (streams only), raises another HttpError, or
\* raises something that is not an HttpError (a timeout, a transport error).
BroadcastDeleteOutcomes == {"ok", "http", "other"}
StreamDeleteOutcomes == {"ok", "notAllowed", "http", "other"}

\* youtube_handler.py:119-126  delete the next listed broadcast; there is no
\* handler inside the loop, so any exception ends the function.
BroadcastsDelete ==
    /\ At("delete_all_scheduled_broadcasts", "delete")
    /\ IF Top.i <= Len(Top.ids)
       THEN \E o \in BroadcastDeleteOutcomes :
              Become([Top EXCEPT
                        !.deleted = Append(@, Top.ids[Top.i]),
                        !.i = @ + 1,
                        !.aborted = IF o = "ok" THEN @ ELSE "delete",
                        !.pc = IF o = "ok" THEN "delete" ELSE "return"])
       ELSE Goto("return")
    /\ UNCHANGED <<ret, exc, client>> /\ EnvUnchanged /\ LoopUnchanged

\* A stream loop whose handler lets the deletion-not-allowed error through.
StreamHandlerCatchesOnlyOther(o) == o = "http"

\* youtube_handler.py:161-165  except HttpError: both branches only log
StreamHandlerCatches(o) == o \in {"notAllowed", "http"}

\* youtube_handler.py:156-169  delete the next listed stream; an HttpError is
\* logged and the loop goes on, any other exception ends the function.
StreamsDelete ==
    /\ At("delete_all_live_streams", "delete")
    /\ IF Top.i <= Len(Top.ids)
       THEN \E o \in StreamDeleteOutcomes :
              LET goOn == o = "ok" \/ StreamHandlerCatches(o) IN
              Become([Top EXCEPT
                        !.deleted = Append(@, Top.ids[Top.i]),
                        !.i = @ + 1,
                        !.skipped = IF o = "notAllowed"
                                    THEN @ \cup {Top.ids[Top.i]} ELSE @,
                        !.aborted = IF goOn THEN @ ELSE "delete",
                        !.pc = IF goOn THEN "delete" ELSE "return"])
       ELSE Goto("return")
    /\ UNCHANGED <<ret, exc, client>> /\ EnvUnchanged /\ LoopUnchanged

CleanupNext ==
    \/ BroadcastsList \/ BroadcastsCheck \/ BroadcastsDelete
    \/ BroadcastsReturn
    \/ StreamsList \/ StreamsCheck \/ StreamsDelete \/ StreamsReturn

----------------------------------------------------------------------------
(* youtube_handler.py: create_youtube_broadcast and get_or_create_playlist, *)
(* called once with a well-formed configuration.  Every API call succeeds   *)
(* or raises; the calls made are appended to calls.                         *)

YtUnchanged ==
    /\ UNCHANGED <<exc, client, settings, clock, loop_iteration, term>>
    /\ EnvUnchanged

\* The playlists of the channel, page by page: TRUE for a page that holds a
\* playlist with the wanted title.
PlaylistShapes == UNION {[1..n -> BOOLEAN] : n \in 1..MaxPages}

PlaylistFrame(pages) ==
    [fn |-> "get_or_create_playlist", pc |-> "list", pages |-> pages,
     next_page_token |-> 0, result |-> "None"]

CreateFrame ==
    [fn |-> "create_youtube_broadcast", pc |-> "cleanup",
     broadcast_id |-> "None", stream_name |-> "None", playlist_id |-> "None",
     result |-> "None",
     inserted |-> "none", streamed |-> "none", bound |-> "none",
     attached |-> "none"]

\* youtube_handler.py:50-66, 87-89  one round of the playlist search: a page
\* with the title returns its id; otherwise follow the token or go on to
\* create the playlist; any exception returns None.
PlaylistList ==
    /\ At("get_or_create_playlist", "list")
    /\ calls' = Append(calls, "playlists.list")
    /\ \/ LET tok == IF Top.next_page_token + 1 < Len(Top.pages)
                     THEN Top.next_page_token + 1 ELSE 0 IN
          IF Top.pages[Top.next_page_token + 1]
          THEN Become([Top EXCEPT !.pc = "return", !.result = "playlist"])
          ELSE Become([Top EXCEPT !.next_page_token = tok,
                                  !.pc = IF FollowToken(tok)
                                         THEN "list" ELSE "insert"])
       \/ Become([Top EXCEPT !.pc = "return", !.result = "None"])
    /\ ret' = ret /\ YtUnchanged

\* youtube_handler.py:68-85, 87-89  playlists().insert(...): the new id, or
\* None when it raises.
PlaylistInsert ==
    /\ At("get_or_create_playlist", "insert")
    /\ calls' = Append(calls, "playlists.insert")
    /\ \E o \in ApiOutcomes :
         Become([Top EXCEPT !.pc = "return",
                            !.result = IF o = "ok" THEN "playlist"
                                       ELSE "None"])
    /\ ret' = ret /\ YtUnchanged

\* youtube_handler.py:62, 85, 89  return
PlaylistReturn ==
    /\ At("get_or_create_playlist", "return")
    /\ Pop /\ ret' = Top.result
    /\ UNCHANGED <<exc, client>> /\ EnvUnchanged /\ LoopUnchanged

\* youtube_handler.py:176-178, 181-182  if cleanup_old_broadcasts:
\* delete_all_scheduled_broadcasts(youtube)
CreateCleanup ==
    /\ At("create_youtube_broadcast", "cleanup")
    /\ IF settings.cleanup_old_broadcasts
       THEN \E p \in PageShapes :
              Call("cleanup_streams",
                   DeleteFrame("delete_all_scheduled_broadcasts", p))
       ELSE Goto("insert_broadcast")
    /\ UNCHANGED <<ret, exc, client>> /\ EnvUnchanged /\ LoopUnchanged

\* youtube_handler.py:179  delete_all_live_streams(youtube)
CreateCleanupStreams ==
    /\ At("create_youtube_broadcast", "cleanup_streams")
    /\ \E p \in PageShapes :
         Call("insert_broadcast", DeleteFrame("delete_all_live_streams", p))
    /\ UNCHANGED <<ret, exc, client>> /\ EnvUnchanged /\ LoopUnchanged

\* youtube_handler.py:197-230  step 1: liveBroadcasts().insert; an exception
\* returns None.
CreateInsertBroadcast ==
    /\ At("create_youtube_broadcast", "insert_broadcast")
    /\ calls' = Append(calls, "liveBroadcasts.insert")
    /\ \E o \in ApiOutcomes :
         IF o = "ok"
         THEN Become([Top EXCEPT !.pc = "insert_stream", !.inserted = o,
                                 !.broadcast_id = "broadcast"])
         ELSE Become([Top EXCEPT !.pc = "return", !.inserted = o,
                                 !.result = "None"])
    /\ ret' = ret /\ YtUnchanged

\* youtube_handler.py:232-255  step 2: liveStreams().insert; stream_name is
\* the ingest key; an exception returns None.
CreateInsertStream ==
    /\ At("create_youtube_broadcast", "insert_stream")
    /\ calls' = Append(calls, "liveStreams.insert")
    /\ \E o \in ApiOutcomes :
         IF o = "ok"
         THEN Become([Top EXCEPT !.pc = "bind", !.streamed = o,
                                 !.stream_name = "key"])
         ELSE Become([Top EXCEPT !.pc = "return", !.streamed = o,
                                 !.result = "None"])
    /\ ret' = ret /\ YtUnchanged

\* youtube_handler.py:257-268  step 3: liveBroadcasts().bind; an exception
\* returns None.
CreateBind ==
    /\ At("create_youtube_broadcast", "bind")
    /\ calls' = Append(calls, "liveBroadcasts.bind")
    /\ \E o \in ApiOutcomes :
         IF o = "ok"
         THEN Become([Top EXCEPT !.pc = "playlist", !.bound = o])
         ELSE Become([Top EXCEPT !.pc = "return", !.bound = o,
                                 !.result = "None"])
    /\ ret' = ret /\ YtUnchanged

\* youtube_handler.py:271-272  playlist_id = get_or_create_playlist(...)
CreatePlaylist ==
    /\ At("create_youtube_broadcast", "playlist")
    /\ \E p \in PlaylistShapes : Call("playlist_ret", PlaylistFrame(p))
    /\ UNCHANGED <<ret, exc, client>> /\ EnvUnchanged /\ LoopUnchanged

\* A create that gives up the key when the broadcast was not attached.
ReturnedKeyIfAttached(f) ==
    IF f.attached = "ok" THEN f.stream_name ELSE "None"

\* youtube_handler.py:295-296  return stream_name
ReturnedKey(f) == f.stream_name

\* youtube_handler.py:273, 292-296  if playlist_id: attach; else: log a
\* warning and return the key.
CreatePlaylistRet ==
    /\ At("create_youtube_broadcast", "playlist_ret")
    /\ IF Truthy(ret)
       THEN Become([Top EXCEPT !.pc = "attach", !.playlist_id = ret])
       ELSE LET f == [Top EXCEPT !.pc = "return", !.playlist_id = ret] IN
            Become([f EXCEPT !.result = ReturnedKey(f)])
    /\ ret' = "None"
    /\ UNCHANGED <<exc, client>> /\ EnvUnchanged /\ LoopUnchanged

\* youtube_handler.py:274-291, 295-296  step 4: playlistItems().insert; an
\* exception is logged; return the key.
CreateAttach ==
    /\ At("create_youtube_broadcast", "attach")
    /\ calls' = Append(calls, "playlistItems.insert")
    /\ \E o \in ApiOutcomes :
         LET f == [Top EXCEPT !.pc = "return", !.attached = o] IN
         Become([f EXCEPT !.result = ReturnedKey(f)])
    /\ ret' = ret /\ YtUnchanged

\* youtube_handler.py:230, 255, 268, 296  return
CreateReturn ==
    /\ At("create_youtube_broadcast", "return")
    /\ Pop /\ ret' = Top.result
    /\ UNCHANGED <<exc, client>> /\ EnvUnchanged /\ LoopUnchanged

\* main.py:90  stream_key = create_youtube_broadcast(youtube_service, settings)
ScriptFrame == [fn |-> "script", pc |-> "start"]

CallCreate ==
    /\ At("script", "start")
    /\ Call("created", CreateFrame)
    /\ UNCHANGED <<ret, exc, client>> /\ EnvUnchanged /\ LoopUnchanged

\* youtube.cleanup_old_broadcasts of config.yaml
CleanupFlags == BOOLEAN

YoutubeInit ==
    /\ stack = <<ScriptFrame>>
    /\ ret = "None"
    /\ exc = "none"
    /\ client = "None"
    /\ linkOk = FALSE
    /\ obsUp = FALSE
    /\ output = "idle"
    /\ \E c \in CleanupFlags : settings = [cleanup_old_broadcasts |-> c]
    /\ clock = 0
    /\ loop_iteration = 0
    /\ term = "none"
    /\ calls = <<>>

CreateNext ==
    \/ CallCreate \/ CreateCleanup \/ CreateCleanupStreams
    \/ CreateInsertBroadcast \/ CreateInsertStream \/ CreateBind
    \/ CreatePlaylist \/ CreatePlaylistRet \/ CreateAttach \/ CreateReturn
    \/ PlaylistList \/ PlaylistInsert \/ PlaylistReturn

YoutubeNext == CreateNext \/ CleanupNext

YoutubeSpec == YoutubeInit /\ [][YoutubeNext]_vars

----------------------------------------------------------------------------
(* obs_handler.py: the OBSHandler class on its own.  A caller holds one    *)
(* handler and calls its public methods one after another in any order,    *)
(* while the endpoint behaves as above.                                    *)

HandlerMethods ==
    {"connect", "disconnect", "set_stream_settings", "start_stream",
     "stop_stream", "wait_for_stream_to_start"}

\* The caller: the method it called last (op), the one before (prev), and
\* the client it saw when it made the last call (before).
CallerFrame ==
    [fn |-> "caller", pc |-> "idle", op |-> "none", prev |-> "none",
     before |-> "None"]

\* obs_handler.py:45-51  OBSHandler(settings): self.client = None
HandlerInit ==
    /\ stack = <<CallerFrame>>
    /\ ret = "None"
    /\ exc = "none"
    /\ client = "None"
    /\ linkOk = FALSE
    /\ obsUp \in BOOLEAN
    /\ output = "idle"
    /\ settings = [count |-> 0, duration |-> 0, expiration_str |-> ""]
    /\ clock = 0
    /\ loop_iteration = 0
    /\ term = "none"
    /\ calls = <<>>

\* obs_handler.py:53, 95, 108-109, 162-163, 170-171, 178-179  one call of a
\* public method; the four stream methods are entered through the decorator.
CallMethod ==
    /\ Len(stack) = 1 /\ Top.fn = "caller"
    /\ \E m \in HandlerMethods :
         stack' = <<[Top EXCEPT !.pc = "called", !.op = m, !.prev = Top.op,
                                !.before = client],
                    IF m = "connect" THEN ConnectFrame
                    ELSE IF m = "disconnect" THEN DisconnectFrame
                    ELSE WrapperFrame(m)>>
    /\ ret' = "None"
    /\ UNCHANGED <<exc, client>> /\ EnvUnchanged /\ LoopUnchanged

HandlerNext == CallMethod \/ ClientNext \/ EnvNext

HandlerSpec == HandlerInit /\ [][HandlerNext]_vars

-----------------------------------------------------------------------------
(* main.py:121-136 with obs_execution.enable_source_reload set: the hold    *)
(* window with the periodic reload of sources.  The specification starts    *)
(* where the activation wait has returned True and follows one hold after   *)
(* another; what the loop does between two holds is left open, except that  *)
(* it never assigns last_source_reload_time.  The configuration has values  *)
(* of the types the hold expects for its reload keys.                       *)

MaxSources == 2         \* len(obs_execution.source_names) is 0..MaxSources
ReloadInterval == 2     \* obs_execution.source_reload_interval_seconds

Min(a, b) == IF a < b THEN a ELSE b

\* main's frame in the hold.  since: time.time() - last_source_reload_time,
\* kept up to ReloadInterval (the comparison at main.py:127 needs no more).
\* i: the position of the for loop in source_names.  round: the sources
\* reload_source was called for in the current round; results: what the
\* calls returned.  rounds: the rounds finished in this hold.  failed: some
\* reload_source of this hold returned False or None.
ReloadFrame ==
    [fn |-> "main", pc |-> "hold_loop", t |-> 0, since |-> 0, i |-> 0,
     round |-> <<>>, results |-> <<>>, rounds |-> 0, failed |-> FALSE,
     stops |-> 0]

\* main.py:65-67, 109-122  the first hold: the client is connected and the
\* output was reported active; some time has passed since main.py:67.
ReloadInit ==
    /\ \E s \in 0..ReloadInterval :
         stack = <<[ReloadFrame EXCEPT !.since = s]>>
    /\ ret = "None"
    /\ exc = "none"
    /\ client = "obs"
    /\ linkOk = TRUE
    /\ obsUp = TRUE
    /\ output = "active"
    /\ \E n \in 0..MaxSources :
         settings = [enable_source_reload |-> TRUE, source_names |-> n]
    /\ clock = 0
    /\ loop_iteration = 0
    /\ term = "none"
    /\ calls = <<>>

\* A comparison that lets every round of the hold reload.
RoundDueAlways(s) == TRUE

\* main.py:127  (time.time() - last_source_reload_time) >= reload_interval
RoundDue(s) == s >= ReloadInterval

\* main.py:123-127  the head of the hold loop: past the hold time go on to
\* the stop; else, with the reload enabled, compare the time since the last
\* reload with the interval.  The lookups of a round may raise.
HoldLoop ==
    /\ At("main", "hold_loop")
    /\ IF Top.t < HoldDuration
       THEN \/ IF settings.enable_source_reload /\ RoundDue(Top.since)
               THEN Become([Top EXCEPT !.pc = "reload_next", !.i = 1,
                                       !.round = <<>>, !.results = <<>>])
               ELSE Goto("hold_sleep")
            \/ Goto("except")
       ELSE Goto("stop")
    /\ UNCHANGED <<ret, exc, client>> /\ EnvUnchanged /\ LoopUnchanged

\* A for loop that gives up the round at the first source that fails.
NextSourceUnlessFailed(i, r, n) == IF r = "True" THEN i + 1 ELSE n + 1

\* main.py:128-129  the result of reload_source is not looked at
NextSource(i, r, n) == i + 1

\* main.py:128-130  for source_name in source_names: reload_source(...);
\* after the last one, last_source_reload_time = time.time()
ReloadNextSource ==
    /\ At("main", "reload_next")
    /\ IF Top.i <= settings.source_names
       THEN /\ CallWith([Top EXCEPT !.pc = "reload_ret",
                                    !.round = Append(@, Top.i)],
                        WrapperFrame("reload_source"))
            /\ ret' = "None"
       ELSE /\ Become([Top EXCEPT !.pc = "hold_sleep", !.since = 0,
                                  !.rounds = @ + 1])
            /\ ret' = ret
    /\ UNCHANGED <<exc, client>> /\ EnvUnchanged /\ LoopUnchanged

\* main.py:128-129  back in the for loop
ReloadRet ==
    /\ At("main", "reload_ret")
    /\ Become([Top EXCEPT !.pc = "reload_next",
                          !.i = NextSource(@, ret, settings.source_names),
                          !.results = Append(@, ret),
                          !.failed = @ \/ ret # "True"])
    /\ UNCHANGED <<ret, exc, client>> /\ EnvUnchanged /\ LoopUnchanged

\* main.py:132  time.sleep(polling interval)
HoldSleep ==
    /\ At("main", "hold_sleep")
    /\ Become([Top EXCEPT !.pc = "hold_loop", !.t = @ + PollInterval,
                          !.since = Min(@ + PollInterval, ReloadInterval)])
    /\ UNCHANGED <<ret, exc, client>> /\ EnvUnchanged /\ LoopUnchanged

\* obs_handler.py:204-231  the requests of reload_source (the scene, the
\* input settings, the button or the settings write): all returned, or one
\* raised; every exception is caught and turned into False.
ReloadSource ==
    /\ At("reload_source", "call")
    /\ \E o \in Outcomes :
         /\ ret' = (IF o = "ok" THEN "True" ELSE "False")
         /\ ReturnCaught(IF o = "ok" THEN "none" ELSE o)
    /\ UNCHANGED <<exc, client>> /\ EnvUnchanged /\ LoopUnchanged

\* main.py:136-149, 70-122  from the end of one hold (after the stop, or
\* through the handler at main.py:142) to the start of the next: time
\* passes, last_source_reload_time keeps its value.
NextHold ==
    /\ Len(stack) = 1 /\ Top.fn = "main" /\ Top.pc \in {"delay", "except"}
    /\ loop_iteration < MaxIter
    /\ \E s \in Top.since..ReloadInterval :
         stack' = <<[ReloadFrame EXCEPT !.since = s]>>
    /\ loop_iteration' = loop_iteration + 1
    /\ calls' = <<>>
    /\ ret' = "None" /\ exc' = "none"
    /\ UNCHANGED <<client, settings, clock, term>> /\ EnvUnchanged

ReloadNext ==
    \/ HoldLoop \/ ReloadNextSource \/ ReloadRet \/ HoldSleep \/ MainStop
    \/ NextHold \/ ReloadSource \/ StopStream
    \/ ConnectBegin \/ ConnectTry1 \/ ConnectLaunch \/ ConnectLaunchWait
    \/ ConnectTry2 \/ DisconnectBegin \/ DisconnectClose \/ DisconnectReturn
    \/ WrapEnter \/ WrapConn0Ret \/ WrapExec1 \/ WrapAfter1 \/ WrapDisc
    \/ WrapReconn \/ WrapReconnRet \/ WrapExec2 \/ WrapAfter2 \/ WrapReturn
    \/ ObsCrash \/ ObsStart \/ LinkDrop \/ OutputStopped

ReloadSpec == ReloadInit /\ [][ReloadNext]_vars


----------------------------------------------------------------------------
(* Vocabulary of the properties.                                           *)

MainPc == stack[1].pc
AtMain(pc) == Len(stack) = 1 /\ stack[1].pc = pc
Called(c) == \E i \in 1..Len(calls) : calls[i] = c
LastCall == IF calls = <<>> THEN "none" ELSE calls[Len(calls)]

\* A step of the program thread other than the operator's interrupt.
ProgStep == stack' # stack /\ ~(term = "none" /\ term' = "interrupt")

BoundEnds == {"count", "duration", "expiration"}
LoopEnds == BoundEnds \cup {"interrupt"}

CountReached == settings.count # 0 /\ loop_iteration >= settings.count
DurationReached == settings.duration # 0 /\ clock >= settings.duration
ExpirationSet == settings.expiration_str \notin {"", "bad"}
ExpirationReached ==
    ExpirationSet /\ clock >= ParseExpiration(settings.expiration_str)

Unbounded ==
    settings.count = 0 /\ settings.duration = 0 /\ ~ExpirationSet

----------------------------------------------------------------------------
(* C1: at the top of every iteration the count bound, the duration bound   *)
(* and the expiration bound are evaluated in this order; the first that    *)
(* holds ends the loop at that check, with no create() and no control-     *)
(* client call made for that iteration; if none holds the body is entered. *)
C1_BoundCheck ==
    /\ [](term \in BoundEnds =>
            calls = <<>> /\ MainPc \in {"finally", "done"})
    /\ [][AtMain("check") /\ ProgStep =>
            /\ calls' = <<>>
            /\ Len(stack') = 1
            /\ IF CountReached
               THEN term' = "count" /\ MainPc' = "finally"
               ELSE IF DurationReached
               THEN term' = "duration" /\ MainPc' = "finally"
               ELSE IF ExpirationReached
               THEN term' = "expiration" /\ MainPc' = "finally"
               ELSE term' = "none" /\ MainPc' = "create"]_vars

\* The loop has ended on the duration bound at a check where the expiration
\* bound held too.
C1_Witness ==
    /\ AtMain("done") /\ term = "duration"
    /\ DurationReached /\ ExpirationReached /\ ~CountReached

(* C2: with count = 0, duration = 0 and the expiration unset or            *)
(* unparseable, the loop ends only by the operator's interrupt: no bound   *)
(* check ever ends it, every check enters the body.                        *)
C2_UnboundedRuns ==
    /\ [](Unbounded => term \notin BoundEnds)
    /\ [](Unbounded /\ MainPc \in {"finally", "done"} => term = "interrupt")
    /\ [][Unbounded /\ AtMain("check") /\ ProgStep =>
            MainPc' = "create"]_vars

\* An unbounded run with an unparseable expiration at the cap of the
\* iteration counter, about to enter the body again.
C2_Witness ==
    /\ Unbounded /\ settings.expiration_str = "bad"
    /\ loop_iteration = MaxIter /\ AtMain("create") /\ term = "none"

(* C3: a soft retry leaves the iteration counter unchanged: no stream key  *)
(* from create(), a failed applyStreamTarget and an activation wait that   *)
(* ends without an active output each lead to the backoff sleep and from   *)
(* there to the bound check, with loop_iteration as it was.                *)
C3_SoftRetry ==
    [][/\ (AtMain("create_ret") /\ exc = "none" /\ ~Truthy(ret) /\ ProgStep
             => AtMain("backoff_create")' /\ loop_iteration' = loop_iteration)
       /\ (AtMain("apply_ret") /\ ~Truthy(ret) /\ ProgStep
             => AtMain("backoff_apply")' /\ loop_iteration' = loop_iteration)
       /\ (AtMain("wait_ret") /\ ~Truthy(ret) /\ ProgStep
             => AtMain("backoff_wait")' /\ loop_iteration' = loop_iteration)
       /\ (MainPc \in BackoffPcs /\ ProgStep
             => AtMain("check")' /\ loop_iteration' = loop_iteration)
      ]_vars

\* After one completed iteration, an attempt whose activation wait failed
\* is back at the bound check.
C3_Witness ==
    /\ AtMain("check") /\ loop_iteration = 1
    /\ LastCall = "wait"

(* C4: the iteration counter changes only by +1, only at the end of the    *)
(* loop body, and there once for every iteration that issued its stop      *)
(* after the hold or was abandoned by the catch-all handler.               *)
C4_IterationCount ==
    [][/\ (loop_iteration' # loop_iteration =>
             /\ loop_iteration' = loop_iteration + 1
             /\ AtMain("delay") /\ AtMain("check")'
             /\ LastCall \in {"stop", "except"})
       /\ (AtMain("delay") /\ ProgStep =>
             loop_iteration' = loop_iteration + 1 /\ AtMain("check")')
       /\ (AtMain("except") /\ ProgStep =>
             AtMain("delay")' /\ LastCall' = "except")
       /\ (AtMain("stop") /\ ProgStep =>
             MainPc' = "delay" /\ LastCall' = "stop")
       /\ (MainPc = "delay" /\ ProgStep => MainPc' \in {"delay", "check"})
      ]_vars

\* An abandoned iteration has been counted: the bound check that follows
\* it finds the count bound reached.
C4_Witness ==
    /\ AtMain("check") /\ LastCall = "except"
    /\ settings.count = 2 /\ loop_iteration = 2

(* C5: whenever the loop ends, by a bound or by an interrupt in any loop   *)
(* state, the teardown runs: disconnect() is called and the client is      *)
(* Disconnected when the process finishes.                                 *)
C5_Teardown ==
    /\ [](term \in LoopEnds => MainPc \in {"finally", "done"})
    /\ [](MainPc \in {"finally", "done"} => term \in LoopEnds)
    /\ [](AtMain("done") => client = "None")
    /\ [][MainPc = "finally" /\ stack' # stack =>
            /\ Len(stack') = 2 /\ MainPc' = "done"
            /\ stack'[2].fn = "disconnect"]_vars

\* The operator interrupted the hold of a connected client, and the process
\* has finished.
C5_Witness ==
    /\ AtMain("done") /\ term = "interrupt" /\ LastCall = "active"
    /\ client = "None"


(* C6: in every iteration whose output was confirmed active the stop       *)
(* command is issued, also when an exception is raised during the hold:    *)
(* the controller is never back at the bound check after a confirmed-      *)
(* active wait without having issued stop.                                 *)
C6_StopAfterConfirmed ==
    AtMain("check") /\ Called("active") => Called("stop")

(* C7: the controller issues its stop command in an iteration only if the  *)
(* activation wait of that iteration returned true; after a wait that      *)
(* timed out or failed no controller stop precedes the next attempt.       *)
C7_StopOnlyIfActive ==
    /\ \A i \in 1..Len(calls) :
         calls[i] = "stop" => \E j \in 1..(i - 1) : calls[j] = "active"
    /\ Len(stack) >= 2 /\ stack[2].fn = "wrapper"
         /\ stack[2].op = "stop_stream"
         => Called("active") /\ LastCall = "stop"
    /\ MainPc = "backoff_wait" => ~Called("active") /\ ~Called("stop")
    /\ MainPc \in {"hold", "hold_loop", "hold_sleep", "stop"}
         => LastCall = "active"

\* The controller's stop command is at the endpoint call, after a wait
\* that confirmed the output active.
C7_Witness ==
    /\ Len(stack) = 3 /\ stack[2].fn = "wrapper"
    /\ stack[2].op = "stop_stream" /\ stack[3].fn = "stop_stream"
    /\ Called("active")

(* C8: the reconnect wrapper executes the operation at most twice and      *)
(* runs at most one disconnect + reconnect cycle; a connection-level       *)
(* error followed by a successful re-execution gives exactly one           *)
(* disconnect, one reconnect, two executions and the operation's own       *)
(* result; a re-execution that raises too gives the failure result (None)  *)
(* after exactly two executions.                                           *)
C8_ReconnectWrapper ==
    \A i \in 1..Len(stack) :
      stack[i].fn = "wrapper" =>
        LET w == stack[i] IN
        /\ w.execs <= 2 /\ w.discs <= 1 /\ w.conns <= w.discs
        /\ w.execs = 2 => w.e1 = "conn" /\ w.discs = 1 /\ w.conns = 1
        /\ w.pc = "return" /\ w.e1 = "conn" /\ w.e2 = "ok"
             => /\ w.discs = 1 /\ w.conns = 1 /\ w.execs = 2
                /\ w.result = ret
        /\ w.pc = "return" /\ w.e1 = "conn" /\ w.e2 \in {"conn", "other"}
             => /\ w.discs = 1 /\ w.conns = 1 /\ w.execs = 2
                /\ w.result = "None"

\* The activation wait raised a connection-level error, the wrapper
\* reconnected, and the re-executed wait returned True.
C8_Witness ==
    /\ At("wrapper", "return") /\ Top.op = "wait_for_stream_to_start"
    /\ Top.e1 = "conn" /\ Top.e2 = "ok" /\ Top.result = "True"

(* C9: the reconnect policy holds for every wrapped operation: a failed    *)
(* initial connect fails the operation without executing it, and a         *)
(* connection-level error of an endpoint call made inside the operation    *)
(* leads to one teardown, one reconnect attempt and (the reconnect         *)
(* succeeding) one retry before the wrapper returns.                       *)
C9_UniformReconnect ==
    At("wrapper", "return") =>
      /\ Top.conn0 = "failed" => Top.execs = 0 /\ Top.result = "None"
      /\ Top.e1 = "conn" \/ Top.caught1 = "conn"
           => /\ Top.discs = 1 /\ Top.conns = 1
              /\ Top.reconn # "failed" => Top.execs = 2

(* C10: applyStreamTarget that finds the output active issues stop before  *)
(* any setStreamServiceSettings call, then polls the status until it is    *)
(* inactive or the 30-unit bound is reached; at the bound with the output  *)
(* still active it returns false without any settings call.                *)
C10_StopBeforeSettings ==
    \A i \in 1..Len(stack) :
      stack[i].fn = "set_stream_settings" /\ stack[i].sawActive =>
        LET f == stack[i] IN
        /\ f.pc = "force_stop" => f.stops = 0 /\ f.sets = 0 /\ f.polls = 0
        /\ f.pc # "force_stop" => f.stops = 1
        /\ f.sets > 0 \/ f.pc \in {"attempt", "retry_sleep"}
             => /\ f.status = "inactive" /\ f.polls >= 1
                /\ f.t < StopWaitBound
        /\ f.pc = "poll_sleep" => f.status = "active" /\ f.t < StopWaitBound
        /\ f.t <= StopWaitBound /\ f.polls <= StopWaitBound
        /\ f.t >= StopWaitBound
             => /\ f.status = "active" /\ f.sets = 0
                /\ f.polls = StopWaitBound
                /\ f.pc \in {"poll", "return"}
                /\ f.pc = "return" => f.result = "False"
        /\ f.pc = "return" /\ f.result = "True"
             => f.sets >= 1 /\ f.status = "inactive"

\* The stop wait hit its bound with the output still active: False is
\* returned and no settings call was made.
C10_Witness ==
    /\ At("set_stream_settings", "return") /\ Top.sawActive
    /\ Top.t = StopWaitBound /\ Top.status = "active"
    /\ Top.result = "False" /\ Top.sets = 0 /\ Top.stops = 1



(* C11: one call of set_stream_settings invokes set_stream_service_settings
   at most MaxRetries times.  When it returns True the successful attempt
   was the last one made, and one delay was slept before each attempt but
   the first.  When the settings loop was entered and every attempt failed
   it returns False after exactly MaxRetries attempts with MaxRetries - 1
   delays, none after the last attempt. *)
C11_MaxRetries ==
    At("set_stream_settings", "return") =>
      /\ Top.sets <= MaxRetries
      /\ Top.result = "True" => Top.sets = Top.attempt + 1
      /\ Top.status = "inactive" /\ Top.result = "False"
           => Top.sets = MaxRetries /\ Top.attempt = MaxRetries - 1

\* Every attempt of one call failed and the call is about to return False.
C11_Witness ==
    /\ At("set_stream_settings", "return")
    /\ Top.status = "inactive" /\ Top.result = "False"
    /\ Top.sets = MaxRetries /\ Top.e # "none"


(* C12: wait_for_stream_to_start returns True exactly from a poll made
   before the timeout that found the output active, and that poll is the
   k-th status call of the execution, one polling interval after the
   previous one; it returns False only when the time slept since the call
   began has reached the timeout, every poll made having found the output
   inactive. *)
C12_ActiveWithin ==
    /\ [](At("wait_for_stream_to_start", "return") =>
            /\ Top.result = "True" =>
                  /\ Top.t < StartTimeout
                  /\ Top.t = (Top.polls - 1) * PollInterval
            /\ Top.result = "False" =>
                  /\ Top.t >= StartTimeout
                  /\ Top.t = Top.polls * PollInterval)
    /\ [][ /\ At("wait_for_stream_to_start", "poll")
           /\ Len(stack') = Len(stack) /\ Top'.pc = "return"
           => /\ Top'.result = "True" => StatusActive /\ Top'.polls = Top.polls + 1
              /\ Top'.result = "False" => Top'.polls = Top.polls ]_vars

\* The output became active between the first and the second poll.
C12_Witness ==
    /\ At("wait_for_stream_to_start", "return")
    /\ Top.result = "True" /\ Top.polls = 2 /\ Top.t = PollInterval


(* C13: connect() called while the client is held returns True at once:
   it opens no connection and launches nothing, and the client is the one
   held before.  A refused first attempt never returns directly: the
   application is launched at most once, and when the launch command was
   issued exactly one more attempt is made (when the launch command itself
   fails connect returns False).  Whenever connect returns, it returns True
   with the client held or False with the client None. *)
C13_ConnectIdempotent ==
    /\ [](At("caller", "called") /\ Top.op = "connect" =>
            /\ ret \in {"True", "False"}
            /\ (ret = "True") <=> (client # "None")
            /\ Top.before # "None" => ret = "True" /\ client = Top.before)
    /\ [](Len(stack) > 0 /\ Top.fn = "connect" =>
            /\ Top.pc # "begin" => client = "None"
            /\ Top.launches <= 1 /\ Top.tries <= 1
            /\ Top.pc \in {"launch_wait", "try2"}
                 => Top.launches = 1 /\ Top.tries = 1)
    /\ [][ Len(stack) > 1 /\ Top.fn = "connect" /\ stack' = Rest
           => /\ (ret' = "True") <=> (client' # "None")
              /\ Top.pc = "begin"
                   => client # "None" /\ UNCHANGED <<client, linkOk>>
              /\ Top.pc = "try1" => obsUp
              /\ Top.pc = "launch" => ret' = "False" ]_vars

\* connect() was called with the client held and has returned True.
C13_Witness ==
    /\ At("caller", "called") /\ Top.op = "connect"
    /\ Top.before # "None" /\ ret = "True" /\ client = Top.before


(* C14: disconnect() never raises and always ends with the client None,
   also when the endpoint's disconnect call raised.  Called with the client
   None it returns at once and changes nothing, so the second of two calls
   in a row finds the client None and leaves the state the first one left. *)
C14_DisconnectSafe ==
    /\ [](At("disconnect", "return") => client = "None" /\ exc = "none")
    /\ [](At("caller", "called") /\ Top.op = "disconnect" =>
            /\ client = "None" /\ exc = "none" /\ ret = "None"
            /\ Top.prev = "disconnect" => Top.before = "None")
    /\ [][ At("disconnect", "begin") /\ client = "None" /\ stack' # stack
           => /\ stack' = Rest
              /\ UNCHANGED <<client, linkOk, obsUp, output, exc>> ]_vars

\* The caller's disconnect() found the client held, the endpoint's
\* disconnect call raised, and disconnect is about to return.
C14_Witness ==
    /\ At("disconnect", "return") /\ Top.e = "raise"
    /\ Len(stack) = 2 /\ stack[1].fn = "caller" /\ stack[1].before # "None"
    /\ client = "None"


(* C15: when delete_all_scheduled_broadcasts ends and none of its API calls
   raised, it has made exactly one list call per page of the listing,
   collected every listed id in listing order, and made exactly one delete
   call per listed id, in that order. *)
C15_CleanupPagination ==
    At("delete_all_scheduled_broadcasts", "return") /\ Top.aborted = "none"
      => /\ Top.lists = Len(Top.pages)
         /\ Top.ids = [j \in 1..SumTo(Top.pages, Len(Top.pages)) |-> j]
         /\ Top.deleted = Top.ids

\* Five broadcasts listed on three pages (2, 2, 1) have all been deleted.
C15_Witness ==
    /\ At("delete_all_scheduled_broadcasts", "return")
    /\ Top.aborted = "none"
    /\ Top.pages = <<2, 2, 1>> /\ Top.lists = 3 /\ Len(Top.deleted) = 5


(* C16: in delete_all_live_streams a delete call that raises the
   deletion-not-allowed error is skipped: the loop goes on with the next
   listed stream.  So when the function ends without having been cut short,
   every listed stream has received its delete call, the skipped ones
   included, wherever in the batch they were. *)
C16_SkipNotAllowed ==
    /\ [](At("delete_all_live_streams", "return") /\ Top.aborted = "none"
            => Top.deleted = Top.ids)
    /\ [][ /\ At("delete_all_live_streams", "delete")
           /\ Len(stack') = Len(stack) /\ Top'.skipped # Top.skipped
           => /\ Top'.pc = "delete" /\ Top'.aborted = Top.aborted
              /\ Top'.i = Top.i + 1 ]_vars

\* A batch of three streams: the second delete call raised the
\* deletion-not-allowed error, and all three calls were made.
C16_Witness ==
    /\ At("delete_all_live_streams", "return") /\ Top.aborted = "none"
    /\ Top.ids = <<1, 2, 3>> /\ Top.skipped = {2}
    /\ Top.deleted = <<1, 2, 3>>


(* C17: cleanup is best-effort for deletion failures: when the listing of
   a cleanup function succeeded, every listed broadcast and every listed
   stream has received its delete call by the time the function ends, no
   matter which delete calls failed. *)
C17_BestEffort ==
    /\ Len(stack) > 0
    /\ Top.fn \in {"delete_all_scheduled_broadcasts", "delete_all_live_streams"}
    /\ Top.pc = "return" /\ Top.aborted # "list"
    => Top.deleted = Top.ids


(* C18: create_youtube_broadcast calls liveBroadcasts.insert,
   liveStreams.insert and liveBroadcasts.bind in that order and stops with
   None at the first of them that raises, calling nothing further; when all
   three succeed it goes on to the playlist (list calls, an insert when no
   page has the title, then playlistItems.insert when a playlist id was
   obtained) and returns the ingest key, whatever the playlist calls did. *)
C18_CreateOrder ==
    At("create_youtube_broadcast", "return") =>
      LET f == Top
          three == <<"liveBroadcasts.insert", "liveStreams.insert",
                     "liveBroadcasts.bind">>
          ok3 == f.inserted = "ok" /\ f.streamed = "ok" /\ f.bound = "ok"
      IN
      /\ (f.result = "key") <=> ok3
      /\ f.result \in {"key", "None"}
      /\ f.inserted = "raise" => calls = SubSeq(three, 1, 1)
      /\ f.streamed = "raise" => calls = SubSeq(three, 1, 2)
      /\ f.bound = "raise" => calls = three
      /\ ok3 =>
           /\ Len(calls) > 3 /\ SubSeq(calls, 1, 3) = three
           /\ \A k \in 4..Len(calls) :
                /\ calls[k] \in {"playlists.list", "playlists.insert",
                                 "playlistItems.insert"}
                /\ calls[k] = "playlistItems.insert"
                     => k = Len(calls) /\ f.playlist_id = "playlist"
           /\ f.attached # "none" <=> f.playlist_id = "playlist"

\* All three steps succeeded, attaching to the playlist raised, and the
\* key is about to be returned.
C18_Witness ==
    /\ At("create_youtube_broadcast", "return")
    /\ Top.bound = "ok" /\ Top.attached = "raise" /\ Top.result = "key"


(* C19: when the process has ended, its exit status is 0 if the run ended
   at a loop bound or by the operator's interrupt, and non-zero if it ended
   at startup because config.yaml was missing, because it could not be
   parsed, or because the initial authentication failed. *)
C19_ExitCode ==
    Len(stack) = 1 /\ Top.fn = "main" /\ Top.code # -1 =>
      /\ term \in LoopEnds => Top.code = 0
      /\ term \in {"missing", "unparseable", "auth"} => Top.code # 0

\* config.yaml could not be parsed and the process has exited.
C19_Witness ==
    /\ At("main", "aborted") /\ term = "unparseable" /\ Top.code # -1


(* C20 as claimed: whenever a bound check follows an iteration attempt, the
   last thing the loop did before it was the inter-iteration delay. *)
C20_DelayAfterEveryAttempt ==
    AtMain("check") /\ calls # <<>> =>
      Top.slept # <<>> /\ Top.slept[Len(Top.slept)] = DelaySeconds

(* C20, amended: the inter-iteration delay precedes the next bound check
   after an iteration that ended with the stop command (the delay alone)
   and after one abandoned by the catch-all handler (the backoff, then the
   delay); after a soft retry the backoff alone was slept and the bound
   check follows it directly. *)
C20_DelayAfterCountedIteration ==
    AtMain("check") /\ calls # <<>> =>
      Top.slept = IF LastCall = "stop" THEN <<DelaySeconds>>
                  ELSE IF LastCall = "except"
                  THEN <<BackoffSeconds, DelaySeconds>>
                  ELSE <<BackoffSeconds>>

\* The activation wait timed out, the backoff was slept, and the next bound
\* check is due.
C20_Witness ==
    /\ AtMain("check") /\ LastCall = "wait"
    /\ Top.slept = <<BackoffSeconds>>


(* C21: set_stream_service_settings is never called while the endpoint
   reports its output active, whatever the endpoint does between the status
   check of set_stream_settings and its settings call. *)
C21_NoSettingsWhileActive ==
    [][ /\ At("set_stream_settings", "attempt")
        /\ Len(stack') = Len(stack) /\ Top'.sets = Top.sets + 1
        => ~StatusActive ]_vars


\* The controller's calls of one attempt in the order of main.py:90-136.
AttemptOrder == <<"create", "apply", "start", "wait", "active", "stop">>

\* The calls of the current attempt without the handler's mark.
AttemptCalls == SelectSeq(calls, LAMBDA c : c # "except")

(* C22: within one attempt the controller's calls follow the order create,
   apply, start, wait, hold, stop; create is called exactly once per attempt;
   start is issued only after set_stream_settings returned true for the key
   create returned in that same attempt; and a key is passed to
   set_stream_settings at most once in the whole run, never one left from an
   earlier attempt. *)
C22_AttemptOrder ==
    /\ [](/\ Len(AttemptCalls) <= Len(AttemptOrder)
          /\ AttemptCalls = SubSeq(AttemptOrder, 1, Len(AttemptCalls))
          /\ (Called("apply") <=> stack[1].applied # "none")
          /\ stack[1].applied \in {"none", "key"}
          /\ (Called("start") => stack[1].stream_key = "key"))
    /\ [][AtMain("create") /\ ProgStep => calls' = <<"create">>]_vars
    /\ [][MainPc # "start" /\ MainPc' = "start"
            => AtMain("apply_ret") /\ Truthy(ret) /\ exc = "none"
               /\ calls = <<"create", "apply">>]_vars
    /\ [][~Called("start") /\ Called("start")'
            => AtMain("start") /\ stack[1].applied = stack[1].stream_key]_vars

\* The second iteration has run through to its stop with its own key.
C22_Witness ==
    /\ calls = AttemptOrder /\ loop_iteration = 1
    /\ stack[1].applied = "key" /\ stack[1].stream_key = "key"


\* The number of configured source names and main's frame in the hold.
SourceCount == settings.source_names
Hold == stack[1]

(* C23: in the hold with the periodic reload enabled, a round starts only
   when at least the interval has passed since last_source_reload_time, which
   keeps its value across iterations and is set only at the end of a round; a
   round calls reload_source once per configured source in order; and a
   source whose reload fails (a lost connection included) neither skips the
   sources after it, nor ends the hold early, nor keeps the stop command from
   being sent at the end of the hold. *)
C23_ReloadRound ==
    /\ [][AtMain("hold_loop") /\ MainPc' = "reload_next"
            => Hold.since >= ReloadInterval]_vars
    /\ [][Hold'.since < Hold.since
            => /\ AtMain("reload_next") /\ MainPc' = "hold_sleep"
               /\ Len(Hold.round) = SourceCount /\ Hold'.since = 0]_vars
    /\ [](/\ \A k \in 1..Len(Hold.round) : Hold.round[k] = k
          /\ Len(Hold.round) <= SourceCount
          /\ (AtMain("reload_next") => Len(Hold.round) = Hold.i - 1)
          /\ (MainPc \in {"stop", "delay"} => Hold.t >= HoldDuration))
    /\ [][AtMain("reload_ret") /\ stack' # stack
            => /\ MainPc' = "reload_next" /\ Hold'.i = Hold.i + 1
               /\ Hold'.t = Hold.t]_vars
    /\ [][MainPc # "except" /\ MainPc' = "except" => AtMain("hold_loop")]_vars
    /\ [][AtMain("hold_loop") /\ Hold.t >= HoldDuration /\ stack' # stack
            => MainPc' = "stop"]_vars
    /\ [][AtMain("stop") /\ stack' # stack => calls' = <<"stop">>]_vars

\* A hold in a later iteration ended with the stop sent, after a round in
\* which the first of two sources failed and the second was reloaded.
C23_Witness ==
    /\ AtMain("delay") /\ calls = <<"stop">> /\ loop_iteration >= 1
    /\ Hold.results = <<"False", "True">> /\ Hold.rounds = 1


\* The client holds a handle whose connection is broken.
Stale == client # "None" /\ ~linkOk

\* set_stream_settings has returned True to main.
ApplySucceeded == AtMain("apply_ret") /\ ret = "True"

(* C24: the loop recovers from a dropped control connection: when the client
   holds a stale handle while the endpoint accepts connections, a later
   attempt's set_stream_settings succeeds, unless the endpoint goes down
   again or the run ends first (a loop bound, the operator, or the iteration
   bound of this model). *)
C24_Recovers ==
    [](Stale /\ obsUp /\ term = "none" /\ InLoop
         => <>(ApplySucceeded \/ ~obsUp \/ term # "none"
                 \/ loop_iteration = MaxIter))


\* main is in one of its soft retries (sleep 60, continue).
SoftRetrying == MainPc \in BackoffPcs

\* The process has left the loop or never entered it.
Terminated == term # "none"

(* C25: with count = N > 0 the loop terminates whenever soft retries do not
   repeat forever; when it ends by the count bound the iteration index is N;
   and main never calls stop_stream more than N times. *)
C25_CountTerminates ==
    /\ (<>[](settings.count > 0 /\ ~SoftRetrying) => <>Terminated)
    /\ [](settings.count > 0
            => /\ (term = "count" => loop_iteration = settings.count)
               /\ stack[1].stops <= settings.count
               /\ stack[1].stops <= loop_iteration + 1)

\* The run has ended by the count bound after N iterations that each sent
\* their stop.
C25_Witness ==
    /\ term = "count" /\ settings.count = MaxIter
    /\ stack[1].stops = settings.count /\ AtMain("done")


(* C26: no output that the controller confirmed active is left running when
   the process finishes: whenever main is in its teardown (the disconnect of
   the finally clause, or after it) having left a hold, by the operator's
   interrupt included, the stop command has been issued. *)
C26_StopBeforeDisconnect ==
    MainPc \in {"finally", "done"} /\ Called("active") => Called("stop")

====
